---- MODULE Spec2Model ----
(***************************************************************************)
(* Model of stalker.py: one invocation of main() after another.  A run     *)
(* acquires a token, pages through the playlist, loads the CSV snapshot,   *)
(* diffs by track id, and when the diff is non-empty sends one Telegram    *)
(* message and then overwrites the snapshot.                               *)
(*                                                                         *)
(* JSON values are modelled as strings; the JSON null / Python None is the *)
(* value None below, which is different from every modelled string.        *)
(***************************************************************************)
EXTENDS Integers, Sequences, FiniteSets, TLC

\* ---------------------------------------------------------------- bounds
MaxTracks == 2      \* length of the list get_playlist_tracks accumulates

\* ---------------------------------------------------------------- values
None == "<None>"
Absent == "<absent>"          \* a key that is not in the JSON object
BaseUrl == "playlists/<id>/tracks"
NextUrl == "playlists/<id>/tracks?offset=n"
Preamble == "Looks like your friends have added some new songs to the playlist."
UnknownArtist == "Unknown Artist"

NoError == [type |-> "none", origin |-> "none"]
NoResp == [kind |-> "none", items |-> <<>>, next |-> None]
NoFile == [exists |-> FALSE, rows |-> <<>>]

\* ------------------------------------------------- upstream input domains
\* One playlist item as the API can return it.  track: "obj" (a track
\* object), "null" (deleted track) or Absent (no 'track' key).  artists:
\* "list" (first element is an object with a name), "empty" ([]), "null",
\* "noname" (first element lacks 'name'), "nondict" (first element is not
\* an object) or Absent.  urls: "obj" (has 'spotify'), "nokey" ({}),
\* "null" or Absent.
Item(track, id, name, artists, urls) ==
    [track |-> track, id |-> id, name |-> name, artists |-> artists,
     artistName |-> "a", urls |-> urls, url |-> "u"]

FirstGood == Item("obj", "1", "n", "list", "obj")
SecondGood == Item("obj", "2", "n", "empty", "obj")

GoodItems == {FirstGood, SecondGood}

OddItems ==
    { Item("obj", None, "n", "list", "obj"),
      Item("obj", "", "n", "list", "obj"),
      Item("obj", "1", None, "list", "obj"),
      Item("obj", "2", "n", "null", "obj"),
      Item("null", Absent, Absent, Absent, Absent),
      Item(Absent, Absent, Absent, Absent, Absent),
      Item("obj", Absent, "n", "list", "obj"),
      Item("obj", "1", "n", Absent, "obj"),
      Item("obj", "1", "n", "noname", "obj"),
      Item("obj", "1", "n", "nondict", "obj"),
      Item("obj", "1", "n", "list", "nokey"),
      Item("obj", "1", "n", "list", "null") }

RawItems == GoodItems \cup OddItems

\* The item lists of a page: any single item, any item followed by a good
\* one, and a good item twice.
Pages ==
    {<<>>, <<FirstGood, FirstGood>>}
        \cup { <<a>> : a \in RawItems }
        \cup { <<a, SecondGood>> : a \in RawItems }

NextValues == {None, "", NextUrl}

PageErrors ==
    {"http401", "http403", "http404", "http429", "http500", "network",
     "badjson", "noitems"}

PageResponses ==
    { [kind |-> "ok", items |-> p, next |-> n] : p \in Pages, n \in NextValues }
    \cup { [kind |-> k, items |-> <<>>, next |-> None] : k \in PageErrors }

TokenResponses ==
    {"ok", "nocreds", "http401", "http429", "http500", "network",
     "notoken", "badjson"}

TelegramResponses ==
    {"ok", "nocreds", "http401", "http400", "http429", "http500", "network"}

\* ------------------------------------------------------------- variables
VARIABLES
    pc,               \* position of main(): start, fetching, page_wait,
                      \* fetched, notify, save, done
    file,             \* data/playlist_songs.csv
    fileAtStart,      \* ghost: the file when this run began
    tokenResp,        \* ghost: what the identity endpoint answered this run
    playlist_url,     \* get_playlist_tracks: the loop variable
    tracks,           \* get_playlist_tracks: the accumulated list
    tracksBefore,     \* ghost: tracks before the last response was processed
    resp,             \* ghost: the last response of the playlist endpoint
    inFlight,         \* ghost: playlist requests awaiting their response
    requested,        \* ghost: a playlist request was made this run
    current_tracks,   \* main: result of get_playlist_tracks
    existing_tracks,  \* main: result of load_existing_tracks
    new_tracks,       \* main: the diff
    notifyResp,       \* ghost: what the Telegram endpoint answered this run
    sent,             \* ghost: messages delivered this run
    log,              \* ghost: load / diff / send / save, in execution order
    error,            \* the exception that ended the run, or NoError
    crashed           \* TRUE when an exception escaped main()

vars == <<pc, file, fileAtStart, tokenResp, playlist_url, tracks,
          tracksBefore, resp, inFlight, requested, current_tracks,
          existing_tracks, new_tracks, notifyResp, sent, log, error, crashed>>

fetchVars == <<playlist_url, tracks, tracksBefore, resp, inFlight, requested>>
mainVars == <<current_tracks, existing_tracks, new_tracks, notifyResp, sent, log>>

\* ------------------------------------------------------- get_spotify_token
\* The exception get_spotify_token raises for an answer, or "none".
get_spotify_token(r) ==
    CASE r = "nocreds" -> "ValueError"
      [] r = "http401" -> "ValueError"
      [] r = "http429" -> "RuntimeError"
      [] r = "http500" -> "RuntimeError"
      [] r = "network" -> "ConnectionError"
      [] r = "notoken" -> "ValueError"
      [] r = "badjson" -> "JSONDecodeError"
      [] OTHER -> "none"

\* ----------------------------------------------------- get_playlist_tracks
\* What the body of the per-item try block does with one item.
ItemOutcome(item) ==
    IF item.track = Absent THEN "KeyError"
    ELSE IF item.track = "null" THEN "continue"
    ELSE IF item.id = Absent THEN "KeyError"
    ELSE IF item.name = Absent THEN "KeyError"
    ELSE IF item.artists = Absent THEN "KeyError"
    ELSE IF item.artists = "noname" THEN "KeyError"
    ELSE IF item.artists = "nondict" THEN "TypeError"
    ELSE IF item.urls \in {Absent, "nokey"} THEN "KeyError"
    ELSE IF item.urls = "null" THEN "TypeError"
    ELSE "append"

NormalizeItem(item) ==
    [id |-> item.id,
     name |-> item.name,
     artist |-> IF item.artists \in {"null", "empty"} THEN UnknownArtist
                ELSE item.artistName,
     url |-> item.url]

\* except (KeyError, IndexError): the item is logged and skipped.
ItemExceptCatches(type) == type \in {"KeyError", "IndexError"}

\* for item in data['items']: the list after the loop, or the exception
\* that left it.
RECURSIVE ProcessItems(_, _)
ProcessItems(items, acc) ==
    IF items = <<>> THEN [raised |-> "none", tracks |-> acc]
    ELSE LET o == ItemOutcome(Head(items)) IN
         IF o = "append"
           THEN ProcessItems(Tail(items), Append(acc, NormalizeItem(Head(items))))
         ELSE IF o = "continue" \/ ItemExceptCatches(o)
           THEN ProcessItems(Tail(items), acc)
         ELSE [raised |-> o, tracks |-> acc]

\* The exception a page-level failure raises out of get_playlist_tracks.
PageRaises(kind) ==
    CASE kind = "http401" -> "ValueError"
      [] kind = "http403" -> "ValueError"
      [] kind = "http404" -> "ValueError"
      [] kind = "http429" -> "RuntimeError"
      [] kind = "http500" -> "RuntimeError"
      [] kind = "network" -> "ConnectionError"
      [] kind = "badjson" -> "ValueError"
      [] kind = "noitems" -> "KeyError"
      [] OTHER -> "none"

\* Variant: only None ends the loop.
TruthyNotNone(url) == url # None

\* while playlist_url:
Truthy(url) == url # None /\ url # ""

\* ---------------------------------------------------------- snapshot store
\* csv.DictWriter writes None as the empty field and a string as itself.
CsvStr(v) == IF v = None THEN "" ELSE v

CsvRow(t) ==
    [id |-> CsvStr(t.id), name |-> CsvStr(t.name),
     artist |-> CsvStr(t.artist), url |-> CsvStr(t.url)]

save_tracks(ts) ==
    [exists |-> TRUE, rows |-> [i \in 1..Len(ts) |-> CsvRow(ts[i])]]

load_existing_tracks(f) == IF f.exists THEN f.rows ELSE <<>>

\* ------------------------------------------------------------------ differ
ExistingIds(existing) == { existing[i].id : i \in 1..Len(existing) }

\* Variant: a set difference of ids, which keeps one track per id.
RECURSIVE NewTracksDedup(_, _)
NewTracksDedup(current, existing_ids) ==
    IF current = <<>> THEN <<>>
    ELSE (IF Head(current).id \notin existing_ids THEN <<Head(current)>> ELSE <<>>)
         \o NewTracksDedup(Tail(current), existing_ids \cup {Head(current).id})

\* [track for track in current_tracks if track['id'] not in existing_ids]
RECURSIVE NewTracks(_, _)
NewTracks(current, existing_ids) ==
    IF current = <<>> THEN <<>>
    ELSE (IF Head(current).id \notin existing_ids THEN <<Head(current)>> ELSE <<>>)
         \o NewTracks(Tail(current), existing_ids)

\* ---------------------------------------------------------------- notifier
\* An f-string renders None as the text None.
FStr(v) == IF v = None THEN "None" ELSE v

\* The message as the list that is joined with blank lines: the preamble,
\* then one block (name, artist, url) per track.
format_tracks_message(ts) ==
    <<Preamble>> \o [i \in 1..Len(ts) |->
                       <<FStr(ts[i].name), FStr(ts[i].artist), FStr(ts[i].url)>>]

\* Variant: a 400 answer is not turned into an exception.
send_telegram_message_no400(r) ==
    CASE r = "nocreds" -> "ValueError"
      [] r = "http401" -> "ValueError"
      [] r = "http429" -> "RuntimeError"
      [] r = "http500" -> "RuntimeError"
      [] r = "network" -> "ConnectionError"
      [] OTHER -> "none"

\* The exception send_telegram_message raises for an answer, or "none".
send_telegram_message(r) ==
    CASE r = "nocreds" -> "ValueError"
      [] r = "http401" -> "ValueError"
      [] r = "http400" -> "ValueError"
      [] r = "http429" -> "RuntimeError"
      [] r = "http500" -> "RuntimeError"
      [] r = "network" -> "ConnectionError"
      [] OTHER -> "none"

\* ------------------------------------------------------------ orchestrator
\* Variant: only the except httpx.HTTPError clause.
MainCatchesHttpOnly(type) == type \in {"HTTPStatusError", "RequestError"}

\* except httpx.HTTPError / except Exception at the top of main().
MainCatches(type) ==
    type \in {"HTTPStatusError", "RequestError", "ValueError", "RuntimeError",
              "ConnectionError", "KeyError", "IndexError", "TypeError",
              "JSONDecodeError"}

\* Variant: the branch is always taken.
HasNewAlways(new) == TRUE

\* if new_tracks:
HasNew(new) == new # <<>>

\* Variant: only the new tracks are written.
SnapshotToSaveNewOnly(current, new) == new

\* save_tracks(current_tracks, csv_path): the list main() hands to save_tracks.
SnapshotToSave(current, new) == current

\* An exception reaches the top of main(): the run is over.
Raise(type, origin) ==
    /\ pc' = "done"
    /\ error' = [type |-> type, origin |-> origin]
    /\ crashed' = ~MainCatches(type)

Init ==
    /\ pc = "start"
    /\ file = NoFile
    /\ fileAtStart = NoFile
    /\ tokenResp = "none"
    /\ playlist_url = None
    /\ tracks = <<>>
    /\ tracksBefore = <<>>
    /\ resp = NoResp
    /\ inFlight = 0
    /\ requested = FALSE
    /\ current_tracks = <<>>
    /\ existing_tracks = <<>>
    /\ new_tracks = <<>>
    /\ notifyResp = "none"
    /\ sent = <<>>
    /\ log = <<>>
    /\ error = NoError
    /\ crashed = FALSE

\* token = await get_spotify_token(), then get_playlist_tracks up to its loop.
GetToken ==
    /\ pc = "start"
    /\ \E r \in TokenResponses, playlistIdSet \in BOOLEAN :
         /\ tokenResp' = r
         /\ IF get_spotify_token(r) # "none"
              THEN /\ Raise(get_spotify_token(r), "token")
                   /\ UNCHANGED playlist_url
            ELSE IF ~playlistIdSet
              THEN /\ Raise("ValueError", "config")
                   /\ UNCHANGED playlist_url
            ELSE /\ pc' = "fetching"
                 /\ playlist_url' = BaseUrl
                 /\ UNCHANGED <<error, crashed>>
    /\ UNCHANGED <<file, fileAtStart, tracks, tracksBefore, resp,
                   inFlight, requested, mainVars>>

\* response = await client.get(playlist_url, headers=headers): the request.
RequestPage ==
    /\ pc = "fetching"
    /\ Truthy(playlist_url)
    /\ pc' = "page_wait"
    /\ inFlight' = inFlight + 1
    /\ requested' = TRUE
    /\ UNCHANGED <<file, fileAtStart, tokenResp, playlist_url, tracks,
                   tracksBefore, resp, mainVars, error, crashed>>

\* The response arrives: one iteration of the while loop, and the return
\* of get_playlist_tracks when the page has no next URL.
PageResponse ==
    /\ pc = "page_wait"
    /\ \E r \in PageResponses :
         LET out == ProcessItems(r.items, tracks) IN
         /\ r.kind = "ok" /\ out.raised = "none" => Len(out.tracks) <= MaxTracks
         /\ resp' = r
         /\ inFlight' = inFlight - 1
         /\ IF r.kind # "ok"
              THEN /\ Raise(PageRaises(r.kind), "page")
                   /\ tracks' = <<>>
                   /\ tracksBefore' = <<>>
                   /\ UNCHANGED <<playlist_url, current_tracks>>
            ELSE IF out.raised # "none"
              THEN /\ Raise(out.raised, "item")
                   /\ tracks' = <<>>
                   /\ tracksBefore' = <<>>
                   /\ UNCHANGED <<playlist_url, current_tracks>>
            ELSE /\ tracks' = out.tracks
                 /\ tracksBefore' = tracks
                 /\ playlist_url' = r.next
                 /\ IF Truthy(r.next)
                      THEN /\ pc' = "fetching"
                           /\ UNCHANGED current_tracks
                      ELSE /\ pc' = "fetched"
                           /\ current_tracks' = out.tracks
                 /\ UNCHANGED <<error, crashed>>
    /\ UNCHANGED <<file, fileAtStart, tokenResp, requested,
                   existing_tracks, new_tracks, notifyResp, sent, log>>

\* existing_tracks = load_existing_tracks(csv_path), the diff, and the branch.
LoadAndDiff ==
    /\ pc = "fetched"
    /\ LET existing == load_existing_tracks(file)
           new == NewTracks(current_tracks, ExistingIds(existing)) IN
         /\ existing_tracks' = existing
         /\ new_tracks' = new
         /\ log' = log \o <<"load", "diff">>
         /\ pc' = IF HasNew(new) THEN "notify" ELSE "done"
    \* the locals of get_playlist_tracks are gone
    /\ tracks' = <<>>
    /\ tracksBefore' = <<>>
    /\ resp' = NoResp
    /\ UNCHANGED <<file, fileAtStart, tokenResp, playlist_url, inFlight,
                   requested, current_tracks, notifyResp, sent, error, crashed>>

\* message = format_tracks_message(new_tracks); await send_telegram_message(message)
SendTelegram ==
    /\ pc = "notify"
    /\ \E r \in TelegramResponses :
         /\ notifyResp' = r
         /\ log' = Append(log, "send")
         /\ IF send_telegram_message(r) # "none"
              THEN /\ Raise(send_telegram_message(r), "notify")
                   /\ UNCHANGED sent
              ELSE /\ sent' = Append(sent, format_tracks_message(new_tracks))
                   /\ pc' = "save"
                   /\ UNCHANGED <<error, crashed>>
    /\ UNCHANGED <<file, fileAtStart, tokenResp, fetchVars,
                   current_tracks, existing_tracks, new_tracks>>

\* save_tracks(current_tracks, csv_path)
SaveTracks ==
    /\ pc = "save"
    /\ file' = save_tracks(SnapshotToSave(current_tracks, new_tracks))
    /\ log' = Append(log, "save")
    /\ pc' = "done"
    /\ UNCHANGED <<fileAtStart, tokenResp, fetchVars, current_tracks,
                   existing_tracks, new_tracks, notifyResp, sent, error, crashed>>

\* The program is invoked again.
NextRun ==
    /\ pc = "done"
    /\ pc' = "start"
    /\ fileAtStart' = file
    /\ tokenResp' = "none"
    /\ playlist_url' = None
    /\ tracks' = <<>>
    /\ tracksBefore' = <<>>
    /\ resp' = NoResp
    /\ inFlight' = 0
    /\ requested' = FALSE
    /\ current_tracks' = <<>>
    /\ existing_tracks' = <<>>
    /\ new_tracks' = <<>>
    /\ notifyResp' = "none"
    /\ sent' = <<>>
    /\ log' = <<>>
    /\ error' = NoError
    /\ crashed' = FALSE
    /\ UNCHANGED file

Next ==
    \/ GetToken
    \/ RequestPage
    \/ PageResponse
    \/ LoadAndDiff
    \/ SendTelegram
    \/ SaveTracks
    \/ NextRun

Spec == Init /\ [][Next]_vars

\* A step of a run, as opposed to the start of another run.
RunStep ==
    \/ GetToken
    \/ RequestPage
    \/ PageResponse
    \/ LoadAndDiff
    \/ SendTelegram
    \/ SaveTracks

\* Every step of main() is taken once it can be, and every request is
\* answered (by a page, a status error or a transport error).
FairSpec == Spec /\ WF_vars(RunStep)

\* ================================================================ properties
Did(e) == \E i \in 1..Len(log) : log[i] = e

IsSuffix(s, t) ==
    /\ Len(s) <= Len(t)
    /\ \A i \in 1..Len(s) : t[Len(t) - Len(s) + i] = s[i]

\* Positions of F whose id equals the id of no track of S.
FreshPositions(F, S) ==
    { i \in 1..Len(F) : \A j \in 1..Len(S) : F[i].id # S[j].id }

\* C1: once a run has computed the diff, new_tracks is the subsequence of the
\* fetch result made of the tracks whose id is the id of no track of the
\* snapshot loaded from the file, in fetch order, duplicates kept; with an
\* empty snapshot it is the fetch result itself.
C1_DiffIsOrderedDifferenceById ==
    Did("diff") =>
        LET I == FreshPositions(current_tracks, existing_tracks) IN
        /\ existing_tracks = load_existing_tracks(fileAtStart)
        /\ Len(new_tracks) = Cardinality(I)
        /\ \A i \in I :
             new_tracks[Cardinality({j \in I : j <= i})] = current_tracks[i]
        /\ existing_tracks = <<>> => new_tracks = current_tracks

C1_Witness ==
    /\ Did("diff")
    /\ existing_tracks # <<>>
    /\ new_tracks # <<>>
    /\ Len(new_tracks) < Len(current_tracks)

C1_WitnessDuplicates ==
    /\ Did("diff")
    /\ Len(new_tracks) = 2
    /\ new_tracks[1].id = new_tracks[2].id

\* C2: when the Telegram call of a run fails, the run is over without
\* save_tracks: the file is the one the run started with, nothing was
\* delivered, and the diff of the same fetch result against the file is
\* again the same non-empty list, so a following run notifies again.
C2_FailedDeliverySkipsSave ==
    notifyResp \notin {"none", "ok"} =>
        /\ pc = "done"
        /\ ~crashed
        /\ error.origin = "notify"
        /\ ~Did("save")
        /\ file = fileAtStart
        /\ sent = <<>>
        /\ new_tracks # <<>>
        /\ LET ids == { load_existing_tracks(file)[j].id :
                          j \in 1..Len(load_existing_tracks(file)) } IN
           new_tracks = SelectSeq(current_tracks, LAMBDA t : t.id \notin ids)

C2_Witness ==
    /\ notifyResp = "http400"
    /\ pc = "done"
    /\ fileAtStart.exists
    /\ ~Did("save")

\* C3: when the Telegram call of a run succeeds, exactly one message was
\* delivered; it is the preamble followed by one block (name, artist, url)
\* per new track, in diff order; save_tracks runs only after that delivery,
\* as the last step of the run, and writes one row per fetched track, in
\* fetch order.
C3_DeliveryThenFullSave ==
    /\ notifyResp = "ok" =>
        /\ pc \in {"save", "done"}
        /\ new_tracks # <<>>
        /\ Len(sent) = 1
        /\ Len(sent[1]) = 1 + Len(new_tracks)
        /\ sent[1][1] = Preamble
        /\ \A i \in 1..Len(new_tracks) :
             sent[1][i + 1] = <<FStr(new_tracks[i].name),
                                FStr(new_tracks[i].artist),
                                FStr(new_tracks[i].url)>>
        /\ pc = "save" => log = <<"load", "diff", "send">> /\ file = fileAtStart
        /\ pc = "done" =>
             /\ log = <<"load", "diff", "send", "save">>
             /\ file.exists
             /\ Len(file.rows) = Len(current_tracks)
             /\ \A i \in 1..Len(current_tracks) :
                  file.rows[i] = CsvRow(current_tracks[i])
    /\ Did("save") => notifyResp = "ok" /\ pc = "done"
    /\ ~Did("save") => file = fileAtStart

C3_Witness ==
    /\ notifyResp = "ok"
    /\ pc = "done"
    /\ Did("save")
    /\ Len(new_tracks) < Len(current_tracks)

\* C4: when get_spotify_token fails, the run is over at once: no playlist
\* request, no load, no diff, no notification, no save, the file unchanged,
\* and the exception does not leave main().
C4_TokenFailureAbortsCleanly ==
    tokenResp \notin {"none", "ok"} =>
        /\ pc = "done"
        /\ ~crashed
        /\ error.origin = "token"
        /\ ~requested
        /\ inFlight = 0
        /\ resp = NoResp
        /\ current_tracks = <<>>
        /\ log = <<>>
        /\ sent = <<>>
        /\ notifyResp = "none"
        /\ file = fileAtStart

C4_Witness ==
    /\ tokenResp = "http401"
    /\ pc = "done"
    /\ fileAtStart.exists

\* C5: when the id of every fetched track is the id of a snapshot track, the
\* run ends after the diff: nothing is sent and the file is not written.
C5_EmptyDiffLeavesSnapshot ==
    ( /\ Did("diff")
      /\ \A i \in 1..Len(current_tracks) :
           \E j \in 1..Len(existing_tracks) :
             existing_tracks[j].id = current_tracks[i].id ) =>
        /\ pc = "done"
        /\ ~crashed
        /\ error = NoError
        /\ log = <<"load", "diff">>
        /\ notifyResp = "none"
        /\ sent = <<>>
        /\ file = fileAtStart

\* The snapshot holds a track that the playlist no longer has.
C5_Witness ==
    /\ Did("diff")
    /\ new_tracks = <<>>
    /\ current_tracks # <<>>
    /\ \E j \in 1..Len(existing_tracks) :
         \A i \in 1..Len(current_tracks) :
           existing_tracks[j].id # current_tracks[i].id
    /\ pc = "done"
    /\ file = fileAtStart

\* C6: after a run that delivered a notification and saved the snapshot, the
\* diff of the same fetch result against the snapshot loaded from the file
\* is empty.
C6_RerunFindsNothingNew ==
    (pc = "done" /\ notifyResp = "ok" /\ Did("save")) =>
        \A i \in 1..Len(current_tracks) :
          \E j \in 1..Len(load_existing_tracks(file)) :
            load_existing_tracks(file)[j].id = current_tracks[i].id

\* C7: every track get_playlist_tracks has accumulated or returned has an id
\* that is neither null nor empty.
C7_FetchedIdsNonEmpty ==
    /\ \A i \in 1..Len(tracks) : tracks[i].id \notin {None, ""}
    /\ \A i \in 1..Len(current_tracks) : current_tracks[i].id \notin {None, ""}

\* C8: after save_tracks(T), load_existing_tracks() is T: same length, same
\* order, the same id, name, artist and url at each position.
C8_SaveLoadRoundTrip ==
    (pc = "done" /\ Did("save")) =>
        /\ Len(load_existing_tracks(file)) = Len(current_tracks)
        /\ \A i \in 1..Len(current_tracks) :
             /\ load_existing_tracks(file)[i].id = current_tracks[i].id
             /\ load_existing_tracks(file)[i].name = current_tracks[i].name
             /\ load_existing_tracks(file)[i].artist = current_tracks[i].artist
             /\ load_existing_tracks(file)[i].url = current_tracks[i].url

\* An item none of whose required fields is missing or malformed, and the
\* track it stands for.
WellFormed(item) ==
    /\ item.track = "obj"
    /\ item.id # Absent
    /\ item.name # Absent
    /\ item.artists \in {"list", "empty", "null"}
    /\ item.urls = "obj"

AsTrack(item) ==
    [id |-> item.id, name |-> item.name,
     artist |-> IF item.artists = "list" THEN item.artistName ELSE UnknownArtist,
     url |-> item.url]

Kept(items) ==
    LET good == SelectSeq(items, WellFormed) IN
    [i \in 1..Len(good) |-> AsTrack(good[i])]

\* C9: a page that arrived with status 200, a decodable body and an item
\* list never aborts the fetch, whatever is wrong with single items: the
\* well-formed items of the page are the end of the accumulated list.
C9_ItemMalformationIsolated ==
    resp.kind = "ok" =>
        /\ error = NoError
        /\ IsSuffix(Kept(resp.items), tracks)

\* The state part of C10: requests go out one at a time, the first to the
\* base URL and each later one to the next URL of the response before it;
\* the loop goes on exactly while the response carries a next URL; each page
\* appends its normalized items to what the earlier pages gave, and the list
\* is returned when a response carries no next URL.
C10_PagedFetchInOrder ==
    /\ inFlight \in {0, 1}
    /\ inFlight = 1 <=> pc = "page_wait"
    /\ pc \in {"fetching", "page_wait"} =>
         /\ playlist_url \notin {None, ""}
         /\ resp = NoResp => playlist_url = BaseUrl /\ tracks = <<>>
         /\ resp # NoResp => resp.kind = "ok" /\ playlist_url = resp.next
         /\ pc = "fetching" => (requested <=> resp # NoResp)
    /\ pc = "fetched" =>
         /\ resp.kind = "ok"
         /\ resp.next \in {None, ""}
         /\ current_tracks = tracks
    /\ (resp.kind = "ok" /\ error = NoError) =>
         tracks = tracksBefore \o Kept(resp.items)

C10_Witness ==
    /\ pc = "fetched"
    /\ tracksBefore # <<>>
    /\ Len(tracks) > Len(tracksBefore)

\* C10 as stated: the above, and every fetch that starts eventually ends,
\* whatever the upstream answers.
C10_FetchAlwaysTerminates ==
    /\ []C10_PagedFetchInOrder
    /\ (pc = "fetching") ~> (pc \notin {"fetching", "page_wait"})

====
